---- MODULE Spec2Model ----
(***************************************************************************)
(* A model of the three scripts of grafana-deployment-tracker:             *)
(*   scripts/calculate_delays.py  (the Delay Calculator)                   *)
(*   scripts/serve_data.py        (the Data Server)                        *)
(*   scripts/deploy_dashboard.py  (the Dashboard Publisher)                *)
(*                                                                         *)
(* Time is counted in units of 1/UnitsPerDay of a day, so that differences *)
(* that are not a whole number of days exist.  The data file is a sequence *)
(* of chunks (a head, one chunk per record, a tail), so that an empty or   *)
(* a partly written file is a value of the model and json.load can reject  *)
(* it.  Console encoding faults (print raising) are outside the model.     *)
(***************************************************************************)
EXTENDS Integers, Sequences, FiniteSets, TLC

\* ------------------------------------------------------------------ bounds
MaxRecords == 2
MaxRuns == 2
MaxRequests == 2
UnitsPerDay == 2

\* ------------------------------------------------------- JSON field values
\* A date field of a record: absent, JSON null, or a string; a string is
\* ISO-formatted (ok) with a local time and a suffix, or anything else.  The
\* suffixes: "" (none), "Z", "+00:00", and "+01u", a UTC offset of one unit
\* of time east.
AbsentD == [k |-> "absent", ok |-> FALSE, local |-> 0, suffix |-> ""]
NullD == [k |-> "null", ok |-> FALSE, local |-> 0, suffix |-> ""]
BadD == [k |-> "str", ok |-> FALSE, local |-> 0, suffix |-> ""]
IsoD(t, sfx) == [k |-> "str", ok |-> TRUE, local |-> t, suffix |-> sfx]

AbsentT == [k |-> "absent", s |-> ""]
NullT == [k |-> "null", s |-> ""]
StrT(s) == [k |-> "str", s |-> s]

NoDelay == [has |-> FALSE, v |-> 0]
SomeDelay(n) == [has |-> TRUE, v |-> n]

Rec(nm, ty, pl, ac, dd) ==
    [isDict |-> TRUE, Name |-> nm, Type |-> ty, PlannedDeploymentDate |-> pl,
     DeploymentDate |-> ac, DelayDays |-> dd]

\* A list element that is not a JSON object (a number, a string, null).
NotADict ==
    [isDict |-> FALSE, Name |-> "absent", Type |-> AbsentT,
     PlannedDeploymentDate |-> AbsentD, DeploymentDate |-> AbsentD,
     DelayDays |-> NoDelay]

\* ----------------------------------------------------------- pure helpers
\* str.replace('Z', '+00:00') on a date string (lines 42, 45).
\* (A variant that leaves the string as it is.)
ReplaceZNot(d) == d

ReplaceZ(d) == IF d.suffix = "Z" THEN [d EXCEPT !.suffix = "+00:00"] ELSE d

\* datetime.fromisoformat (lines 41, 44): a naive datetime for an ISO string
\* with no suffix, an aware one for a numeric UTC offset, ValueError for
\* anything else.  (A 'Z' suffix, which fromisoformat accepts from Python
\* 3.11 on only, never reaches it: ReplaceZ comes first.)  t is what the
\* subtraction of line 49 works on: the local time of a naive datetime, the
\* UTC time of an aware one.
FromIsoformat(d) ==
    IF d.ok /\ d.suffix \in {"", "+00:00", "+01u"}
    THEN [err |-> FALSE, aware |-> d.suffix # "",
          t |-> IF d.suffix = "+01u" THEN d.local - 1 ELSE d.local]
    ELSE [err |-> TRUE, aware |-> FALSE, t |-> 0]

\* timedelta.days (line 49) of a difference of td units: a timedelta is
\* normalised to 0 <= seconds < 1 day, which makes days the floor.
\* (A variant that truncates toward zero, as int(seconds / 86400) would.)
DaysTowardZero(td) ==
    IF td >= 0 THEN td \div UnitsPerDay ELSE -((-td) \div UnitsPerDay)

Days(td) == td \div UnitsPerDay

\* deployment['DelayDays'] = delay (line 50).
\* (A variant that adds to a DelayDays already there.)
SetDelayAdding(r, delay) ==
    [r EXCEPT !.DelayDays =
        IF r.DelayDays.has THEN [has |-> TRUE, v |-> r.DelayDays.v + delay]
        ELSE [has |-> TRUE, v |-> delay]]

SetDelay(r, delay) == [r EXCEPT !.DelayDays = [has |-> TRUE, v |-> delay]]

\* str.lower on the Type strings of the model.
Lower(s) ==
    CASE s \in {"sprint", "Sprint", "SPRINT"} -> "sprint"
      [] s \in {"hotfix", "Hotfix", "HOTFIX"} -> "hotfix"
      [] s = "Other" -> "other"
      [] OTHER -> s

\* deployment['Type'].lower() == tag (lines 53, 55).
\* (A variant without the lower().)
TypeIsExactly(s, tag) == s = tag

TypeIs(s, tag) == Lower(s) = tag

\* The exceptions the loop's own except clauses catch (lines 64-67).
\* (A variant without the except KeyError clause.)
CaughtValueErrorOnly(exc) == exc = "ValueError"

Caught(exc) == exc \in {"KeyError", "ValueError"}

Outcome(exc, r, tot, sc, hc) ==
    [exc |-> exc, rec |-> r, total_delay |-> tot, sprint_count |-> sc,
     hotfix_count |-> hc]

\* Lines 52-62, r carrying the new DelayDays: the Type lookup (KeyError when
\* absent, AttributeError on a non-string), the counters, the total, and the
\* status line, whose {name:20s} raises ValueError for a number and
\* TypeError for null.
CountAndPrint(r, delay, tot, sc, hc) ==
    IF r.Type.k = "absent" THEN Outcome("KeyError", r, tot, sc, hc)
    ELSE IF r.Type.k = "null" THEN Outcome("Other", r, tot, sc, hc)
    ELSE LET sc2 == IF TypeIs(r.Type.s, "sprint") THEN sc + 1 ELSE sc
             hc2 == IF ~TypeIs(r.Type.s, "sprint") /\ TypeIs(r.Type.s, "hotfix")
                    THEN hc + 1 ELSE hc
             tot2 == tot + delay
         IN  IF r.Name = "int" THEN Outcome("ValueError", r, tot2, sc2, hc2)
             ELSE IF r.Name = "null" THEN Outcome("Other", r, tot2, sc2, hc2)
             ELSE Outcome("none", r, tot2, sc2, hc2)

\* Lines 37-62, one iteration of the loop up to its except clauses: the
\* exception that ends it ("none" for none, "Other" for one that is neither
\* KeyError nor ValueError), the record as it is then, and the accumulators.
ProcessRecord(r, tot, sc, hc) ==
    IF ~r.isDict THEN Outcome("Other", r, tot, sc, hc)
    ELSE IF r.PlannedDeploymentDate.k = "absent" THEN Outcome("KeyError", r, tot, sc, hc)
    ELSE IF r.PlannedDeploymentDate.k = "null" THEN Outcome("Other", r, tot, sc, hc)
    ELSE LET planned == FromIsoformat(ReplaceZ(r.PlannedDeploymentDate)) IN
    IF planned.err THEN Outcome("ValueError", r, tot, sc, hc)
    ELSE IF r.DeploymentDate.k = "absent" THEN Outcome("KeyError", r, tot, sc, hc)
    ELSE IF r.DeploymentDate.k = "null" THEN Outcome("Other", r, tot, sc, hc)
    ELSE LET actual == FromIsoformat(ReplaceZ(r.DeploymentDate)) IN
    IF actual.err THEN Outcome("ValueError", r, tot, sc, hc)
    ELSE IF actual.aware # planned.aware THEN Outcome("Other", r, tot, sc, hc)
    ELSE LET delay == Days(actual.t - planned.t) IN
         CountAndPrint(SetDelay(r, delay), delay, tot, sc, hc)

\* ------------------------------------------------------------ the data file
HeadChunk(dep) == [t |-> "head", dep |-> dep, r |-> NotADict, lastUpdated |-> 0]
RecChunk(r) == [t |-> "rec", dep |-> FALSE, r |-> r, lastUpdated |-> 0]
TailChunk(lu) == [t |-> "tail", dep |-> FALSE, r |-> NotADict, lastUpdated |-> lu]
JunkChunk == [t |-> "junk", dep |-> FALSE, r |-> NotADict, lastUpdated |-> 0]

Doc(dep, recs, lu) == [dep |-> dep, deployments |-> recs, lastUpdated |-> lu]
NoData == Doc(FALSE, <<>>, 0)

\* json.dump(data, f, indent=2, ensure_ascii=False): the text, as chunks.
Dump(d) ==
    <<HeadChunk(d.dep)>>
    \o [j \in 1..Len(d.deployments) |-> RecChunk(d.deployments[j])]
    \o <<TailChunk(d.lastUpdated)>>

\* json.load: the text is one complete JSON document, or JSONDecodeError.
WellFormed(c) ==
    /\ Len(c) >= 2
    /\ c[1].t = "head"
    /\ c[Len(c)].t = "tail"
    /\ \A j \in 2..(Len(c) - 1) : c[j].t = "rec"
    /\ (~c[1].dep => Len(c) = 2)

Load(c) ==
    Doc(c[1].dep, [j \in 1..(Len(c) - 2) |-> c[j + 1].r], c[Len(c)].lastUpdated)

\* ------------------------------------------------------------------ inputs
Name0 == "str"
Planned0 == IsoD(1, "Z")
Actual0 == IsoD(2 * UnitsPerDay, "Z")
Baseline == Rec(Name0, StrT("sprint"), Planned0, Actual0, NoDelay)

DateVals ==
    {AbsentD, NullD, BadD, IsoD(0, "Z"), IsoD(1, "Z"),
     IsoD(2 * UnitsPerDay, "Z"), IsoD(0, ""), IsoD(1, "+01u")}
TypeVals ==
    {AbsentT, NullT, StrT("sprint"), StrT("SPRINT"), StrT("Hotfix"), StrT("Other")}
NameVals == {"absent", "str", "int", "null"}
StaleDelay == SomeDelay(7)

\* The baseline record with one field changed.
OneDeviation ==
    {[Baseline EXCEPT !.PlannedDeploymentDate = d] : d \in DateVals}
    \cup {[Baseline EXCEPT !.DeploymentDate = d] : d \in DateVals}
    \cup {[Baseline EXCEPT !.Type = t] : t \in TypeVals}
    \cup {[Baseline EXCEPT !.Name = n] : n \in NameVals}
    \cup {[Baseline EXCEPT !.DelayDays = StaleDelay], NotADict}

\* The two records of the end-to-end scenario.
ScenarioA == Rec("str", StrT("sprint"), IsoD(0, "Z"), IsoD(2 * UnitsPerDay, "Z"), NoDelay)
ScenarioB == Rec("str", StrT("hotfix"), IsoD(0, "Z"), AbsentD, NoDelay)
ScenarioDoc == Doc(TRUE, <<ScenarioA, ScenarioB>>, 0)

MoreRecords ==
    {ScenarioA, ScenarioB,
     Rec("str", StrT("sprint"), Planned0, AbsentD, StaleDelay),
     Rec("str", AbsentT, Planned0, Actual0, StaleDelay),
     Rec("str", StrT("HOTFIX"), IsoD(1, ""), IsoD(0, ""), NoDelay),
     Rec("absent", StrT("hotfix"), BadD, BadD, NoDelay)}

Pool == OneDeviation \cup MoreRecords

SeqsUpTo(S, n) == UNION {[1..m -> S] : m \in 0..n}

\* The data file before the first run: absent, not JSON, a document with no
\* 'deployments' key, or a document of up to MaxRecords records.
InitialFiles ==
    {[exists |-> FALSE, content |-> <<>>],
     [exists |-> TRUE, content |-> <<>>],
     [exists |-> TRUE, content |-> <<JunkChunk>>],
     [exists |-> TRUE, content |-> Dump(Doc(FALSE, <<>>, 0))]}
    \cup {[exists |-> TRUE, content |-> Dump(Doc(TRUE, recs, 0))] :
            recs \in SeqsUpTo(Pool, MaxRecords)}

\* ------------------------------------------------------------------- state
VARIABLES
    file,               \* data/deployments.json: [exists, content]
    clock,              \* the wall clock, as datetime.utcnow() reads it
    pc,                 \* calculate_delays: where the run is
    data,               \* calculate_delays: the loaded document
    i,                  \* calculate_delays: index of the next record
    total_delay, sprint_count, hotfix_count,
    total_deployments, avg_delay,
    exit_code,          \* the process's exit status (0 unless sys.exit(1))
    console,            \* per record, what the loop printed: "none" for the
                        \* status line, else the exception of the warning
    failed_at,          \* which fatal message was printed ("" for none)
    run,                \* how many runs of the script have started
    file0,              \* history: the file when this run started
    opens,              \* history: open(data_file, 'w') calls of this run
    written,            \* calculate_delays: chunks json.dump has got into the file
    prev_delays,        \* history: the DelayDays column the last run wrote
    s_pc,               \* serve_data: "idle", or "reading" inside get_deployments
    s_route,            \* serve_data: the route of the last request
    s_buf, s_pos,       \* get_deployments: what f.read() has so far, and where
    s_status, s_body,   \* serve_data: the last response
    s_requests,         \* serve_data: requests answered
    s_overlap,          \* history: the read met the calculator's rewrite
    d_pc,               \* deploy_dashboard: where the run is
    d_env,              \* the environment: GRAFANA_URL, GRAFANA_API_KEY, DATA_URL
    d_dashfile,         \* dashboards/deployment-dashboard.json
    d_url,              \* deploy_dashboard: grafana_url
    d_config,           \* deploy_dashboard: dashboard_config
    d_posts,            \* the POST requests issued, in order
    d_outcome,          \* what requests.post returned or raised
    d_exit              \* the process's exit status

calcVars ==
    <<file, clock, pc, data, i, total_delay, sprint_count, hotfix_count,
      total_deployments, avg_delay, exit_code, console, failed_at, run, file0,
      opens, written, prev_delays>>
serverVars == <<s_pc, s_route, s_buf, s_pos, s_status, s_body, s_requests, s_overlap>>
deployVars == <<d_pc, d_env, d_dashfile, d_url, d_config, d_posts, d_outcome, d_exit>>
vars == <<calcVars, serverVars, deployVars>>

NoAvg == [num |-> 0, den |-> 1]

CalcInit(files) ==
    /\ file \in files
    /\ clock = 0
    /\ pc = "start"
    /\ data = NoData
    /\ i = 1
    /\ total_delay = 0 /\ sprint_count = 0 /\ hotfix_count = 0
    /\ total_deployments = 0 /\ avg_delay = NoAvg
    /\ exit_code = 0
    /\ console = <<>>
    /\ failed_at = ""
    /\ run = 1
    /\ file0 = file
    /\ opens = 0
    /\ written = 0
    /\ prev_delays = <<>>

\* sys.exit(1) after the given fatal message.
Fatal(where) ==
    /\ exit_code' = 1
    /\ failed_at' = where
    /\ pc' = "done"

\* Lines 16-20: the existence check.
CheckExists ==
    /\ pc = "start"
    /\ IF ~file.exists
       THEN Fatal("not_found")
       ELSE pc' = "load" /\ UNCHANGED <<exit_code, failed_at>>
    /\ UNCHANGED <<file, clock, data, i, total_delay, sprint_count, hotfix_count,
                   total_deployments, avg_delay, console, run, file0, opens, written,
                   prev_delays>>
    /\ UNCHANGED <<serverVars, deployVars>>

\* Lines 22-25, and 94-97 on JSONDecodeError.
LoadData ==
    /\ pc = "load"
    /\ IF WellFormed(file.content)
       THEN /\ data' = Load(file.content)
            /\ pc' = "enter"
            /\ UNCHANGED <<exit_code, failed_at>>
       ELSE Fatal("invalid_json") /\ UNCHANGED data
    /\ UNCHANGED <<file, clock, i, total_delay, sprint_count, hotfix_count,
                   total_deployments, avg_delay, console, run, file0, opens, written,
                   prev_delays>>
    /\ UNCHANGED <<serverVars, deployVars>>

\* Lines 31-36: the accumulators, and data['deployments'] (KeyError goes to
\* the outer except Exception, lines 98-100).
EnterLoop ==
    /\ pc = "enter"
    /\ total_delay' = 0 /\ sprint_count' = 0 /\ hotfix_count' = 0
    /\ i' = 1
    /\ IF ~data.dep
       THEN Fatal("exception")
       ELSE /\ pc' = IF Len(data.deployments) = 0 THEN "stats" ELSE "loop"
            /\ UNCHANGED <<exit_code, failed_at>>
    /\ UNCHANGED <<file, clock, data, total_deployments, avg_delay, console, run,
                   file0, opens, written, prev_delays>>
    /\ UNCHANGED <<serverVars, deployVars>>

\* Lines 36-67: one record.  KeyError and ValueError print a warning and the
\* loop goes on; anything else reaches lines 98-100.
ProcessStep ==
    /\ pc = "loop"
    /\ i <= Len(data.deployments)
    /\ LET o == ProcessRecord(data.deployments[i], total_delay, sprint_count,
                              hotfix_count)
       IN  /\ data' = [data EXCEPT !.deployments[i] = o.rec]
           /\ total_delay' = o.total_delay
           /\ sprint_count' = o.sprint_count
           /\ hotfix_count' = o.hotfix_count
           /\ IF o.exc # "none" /\ ~Caught(o.exc)
              THEN Fatal("exception") /\ UNCHANGED <<i, console>>
              ELSE /\ console' = Append(console, o.exc)
                   /\ i' = i + 1
                   /\ pc' = IF i = Len(data.deployments) THEN "stats" ELSE "loop"
                   /\ UNCHANGED <<exit_code, failed_at>>
    /\ UNCHANGED <<file, clock, total_deployments, avg_delay, run, file0, opens, written,
                   prev_delays>>
    /\ UNCHANGED <<serverVars, deployVars>>

\* Lines 69-74: the statistics and the timestamp.  utcnow() reads the clock,
\* which has advanced since the file's lastUpdated was read from it.
Average(total, count) ==
    IF count > 0 THEN [num |-> total, den |-> count] ELSE NoAvg

Statistics ==
    /\ pc = "stats"
    /\ total_deployments' = Len(data.deployments)
    /\ avg_delay' = Average(total_delay, Len(data.deployments))
    /\ clock' = clock + 1
    /\ data' = [data EXCEPT !.lastUpdated = clock + 1]
    /\ pc' = "open"
    /\ UNCHANGED <<file, i, total_delay, sprint_count, hotfix_count, exit_code,
                   console, failed_at, run, file0, opens, written, prev_delays>>
    /\ UNCHANGED <<s_pc, s_route, s_buf, s_pos, s_status, s_body, s_requests,
                   s_overlap>>
    /\ UNCHANGED deployVars

\* Line 77: open(data_file, 'w') truncates the file, and writes go to its
\* end.
\* (A variant in mode 'a', which keeps what the file holds.)
OpenedForAppending(f) == [f EXCEPT !.exists = TRUE]

OpenedForWriting(f) == [exists |-> TRUE, content |-> <<>>]

\* (A variant with the with block indented into the loop.)
OpenWriteInsideLoop ==
    /\ pc \in {"open", "loop"}
    /\ file' = OpenedForWriting(file)
    /\ opens' = opens + 1
    /\ written' = 0
    /\ pc' = "dump"
    /\ s_overlap' = (s_overlap \/ s_pc = "reading")
    /\ UNCHANGED <<clock, data, i, total_delay, sprint_count, hotfix_count,
                   total_deployments, avg_delay, exit_code, console, failed_at,
                   run, file0, prev_delays>>
    /\ UNCHANGED <<s_pc, s_route, s_buf, s_pos, s_status, s_body, s_requests>>
    /\ UNCHANGED deployVars

OpenWrite ==
    /\ pc = "open"
    /\ file' = OpenedForWriting(file)
    /\ opens' = opens + 1
    /\ written' = 0
    /\ pc' = "dump"
    /\ s_overlap' = (s_overlap \/ s_pc = "reading")
    /\ UNCHANGED <<clock, data, i, total_delay, sprint_count, hotfix_count,
                   total_deployments, avg_delay, exit_code, console, failed_at,
                   run, file0, prev_delays>>
    /\ UNCHANGED <<s_pc, s_route, s_buf, s_pos, s_status, s_body, s_requests>>
    /\ UNCHANGED deployVars

\* Line 77 raising OSError (permissions, a read-only file system): lines
\* 98-100, and the file is as it was.
OpenWriteFails ==
    /\ pc = "open"
    /\ opens' = opens + 1
    /\ Fatal("write")
    /\ UNCHANGED <<file, clock, data, i, total_delay, sprint_count, hotfix_count,
                   total_deployments, avg_delay, console, run, file0, written,
                   prev_delays>>
    /\ UNCHANGED <<serverVars, deployVars>>

\* Line 78: json.dump writes the text through the file's buffer, which
\* reaches the file in one piece or in several; leaving the with block
\* closes the file, and lines 80-92 print the summary.
Flush ==
    /\ pc = "dump"
    /\ \E k \in 1..(Len(Dump(data)) - written) :
          /\ file' = [file EXCEPT !.content =
                         file.content \o SubSeq(Dump(data), written + 1, written + k)]
          /\ written' = written + k
          /\ pc' = IF written + k = Len(Dump(data)) THEN "done" ELSE "dump"
    /\ UNCHANGED <<clock, data, i, total_delay, sprint_count, hotfix_count,
                   total_deployments, avg_delay, exit_code, console, failed_at,
                   run, file0, opens, prev_delays>>
    /\ UNCHANGED <<serverVars, deployVars>>

\* Line 78 raising OSError mid-way (a full disk): lines 98-100, and the file
\* keeps what had reached it.
DumpFails ==
    /\ pc = "dump"
    /\ Fatal("write")
    /\ UNCHANGED <<file, clock, data, i, total_delay, sprint_count, hotfix_count,
                   total_deployments, avg_delay, console, run, file0, opens, written,
                   prev_delays>>
    /\ UNCHANGED <<serverVars, deployVars>>

DelayColumn(recs) == [j \in 1..Len(recs) |-> recs[j].DelayDays]

\* The script is started again (lines 102-103) on the output of a run that
\* succeeded.
Rerun ==
    /\ pc = "done"
    /\ exit_code = 0
    /\ run < MaxRuns
    /\ run' = run + 1
    /\ prev_delays' = <<DelayColumn(data.deployments)>>
    /\ pc' = "start"
    /\ data' = NoData
    /\ i' = 1
    /\ total_delay' = 0 /\ sprint_count' = 0 /\ hotfix_count' = 0
    /\ total_deployments' = 0 /\ avg_delay' = NoAvg
    /\ exit_code' = 0
    /\ console' = <<>>
    /\ failed_at' = ""
    /\ file0' = file
    /\ opens' = 0
    /\ written' = 0
    /\ UNCHANGED <<file, clock>>
    /\ UNCHANGED <<serverVars, deployVars>>

\* ------------------------------------------------------------ serve_data.py
ServerInit ==
    /\ s_pc = "idle"
    /\ s_route = ""
    /\ s_buf = <<>>
    /\ s_pos = 0
    /\ s_status = 0
    /\ s_body = <<>>
    /\ s_requests = 0
    /\ s_overlap = FALSE

Respond(route, status, body) ==
    /\ s_pc' = "idle"
    /\ s_route' = route
    /\ s_status' = status
    /\ s_body' = body
    /\ s_requests' = s_requests + 1

\* Lines 17-21, 24-25: GET /api/deployments opens the file, or answers 404.
GetDeploymentsOpen ==
    /\ s_pc = "idle"
    /\ s_requests < MaxRequests
    /\ IF file.exists
       THEN /\ s_pc' = "reading"
            /\ s_route' = "/api/deployments"
            /\ s_buf' = <<>>
            /\ s_pos' = 0
            /\ s_overlap' = (pc = "dump")
            /\ UNCHANGED <<s_status, s_body, s_requests>>
       ELSE /\ Respond("/api/deployments", 404, <<>>)
            /\ s_overlap' = FALSE
            /\ UNCHANGED <<s_buf, s_pos>>
    /\ UNCHANGED <<calcVars, deployVars>>

\* Line 22: f.read() takes what the file holds past the read position, in one
\* read or in several.
GetDeploymentsRead ==
    /\ s_pc = "reading"
    /\ s_pos < Len(file.content)
    /\ \E k \in 1..(Len(file.content) - s_pos) :
          /\ s_buf' = s_buf \o SubSeq(file.content, s_pos + 1, s_pos + k)
          /\ s_pos' = s_pos + k
    /\ s_overlap' = (s_overlap \/ pc = "dump")
    /\ UNCHANGED <<s_pc, s_route, s_status, s_body, s_requests>>
    /\ UNCHANGED <<calcVars, deployVars>>

\* Lines 22-23, 26-27: at the end of the file the text is parsed; 200 with
\* the document, or 500 on JSONDecodeError.
GetDeploymentsReply ==
    /\ s_pc = "reading"
    /\ s_pos >= Len(file.content)
    /\ IF WellFormed(s_buf)
       THEN Respond("/api/deployments", 200, Dump(Load(s_buf)))
       ELSE Respond("/api/deployments", 500, <<>>)
    /\ s_overlap' = (s_overlap \/ pc = "dump")
    /\ UNCHANGED <<s_buf, s_pos>>
    /\ UNCHANGED <<calcVars, deployVars>>

\* Lines 31-37: GET /deployments.json sends the file's bytes, or 404.
GetDeploymentsFile ==
    /\ s_pc = "idle"
    /\ s_requests < MaxRequests
    /\ IF file.exists
       THEN Respond("/deployments.json", 200, file.content)
       ELSE Respond("/deployments.json", 404, <<>>)
    /\ UNCHANGED <<s_buf, s_pos, s_overlap>>
    /\ UNCHANGED <<calcVars, deployVars>>

\* Lines 39-45: GET /health.
Health ==
    /\ s_pc = "idle"
    /\ s_requests < MaxRequests
    /\ Respond("/health", 200, <<>>)
    /\ UNCHANGED <<s_buf, s_pos, s_overlap>>
    /\ UNCHANGED <<calcVars, deployVars>>

\* Lines 47-57: GET /.
Index ==
    /\ s_pc = "idle"
    /\ s_requests < MaxRequests
    /\ Respond("/", 200, <<>>)
    /\ UNCHANGED <<s_buf, s_pos, s_overlap>>
    /\ UNCHANGED <<calcVars, deployVars>>

\* ------------------------------------------------------ deploy_dashboard.py
\* GRAFANA_URL: unset (the default applies) or set, with trailing slashes.
UrlVals ==
    {[set |-> FALSE, base |-> "custom", slashes |-> 0]}
    \cup {[set |-> TRUE, base |-> "custom", slashes |-> n] : n \in 0..2}
\* GRAFANA_API_KEY: unset, empty or a key.
KeyVals == {"unset", "", "key"}
\* DATA_URL: unset, empty, a URL, or a string that is not valid inside a JSON
\* string literal (it holds a double quote or a backslash).
DataUrlVals == {"unset", "", "url", "url_with_quote"}
Environments ==
    [GRAFANA_URL : UrlVals, GRAFANA_API_KEY : KeyVals, DATA_URL : DataUrlVals]
\* The dashboard file: absent, not JSON, one open() or read() fails on, or a
\* JSON document with or without the YOUR_DATA_URL_HERE token.
DashFiles == {"absent", "invalid_json", "unreadable", "plain", "placeholder"}
\* What requests.post does: a response with a status (and, for 200, a body
\* that response.json() and result.get() accept or not), or an exception.
Outcomes ==
    {[kind |-> "response", status |-> st, body_ok |-> TRUE] :
        st \in {200, 201, 401, 403, 404, 500}}
    \cup {[kind |-> "response", status |-> 200, body_ok |-> FALSE]}
    \cup {[kind |-> k, status |-> 0, body_ok |-> FALSE] :
            k \in {"SSLError", "ConnectionError", "Timeout", "Exception"}}
NoOutcome == [kind |-> "none", status |-> 0, body_ok |-> FALSE]

DeployInit(envs, files) ==
    /\ d_pc = "start"
    /\ d_env \in envs
    /\ d_dashfile \in files
    /\ d_url = [base |-> "", slashes |-> 0]
    /\ d_config = "none"
    /\ d_posts = <<>>
    /\ d_outcome = NoOutcome
    /\ d_exit = 0

DExit(code) == d_exit' = code /\ d_pc' = "done"

\* os.environ.get('GRAFANA_URL', default).
GrafanaUrl(env) ==
    IF env.GRAFANA_URL.set
    THEN [base |-> env.GRAFANA_URL.base, slashes |-> env.GRAFANA_URL.slashes]
    ELSE [base |-> "default", slashes |-> 0]

\* str.rstrip('/').
RStripSlash(u) == [u EXCEPT !.slashes = 0]

\* 'not api_key': the key is None or empty.
KeyMissing(env) == env.GRAFANA_API_KEY \in {"unset", ""}

\* os.environ.get('DATA_URL', '').
DataUrl(env) == IF env.DATA_URL = "unset" THEN "" ELSE env.DATA_URL

\* Lines 17-29: the environment, the API key check, the URL.
Validate ==
    /\ d_pc = "start"
    /\ IF KeyMissing(d_env)
       THEN DExit(1) /\ UNCHANGED d_url
       ELSE /\ d_url' = RStripSlash(GrafanaUrl(d_env))
            /\ d_pc' = "read"
            /\ UNCHANGED d_exit
    /\ UNCHANGED <<d_env, d_dashfile, d_config, d_posts, d_outcome>>
    /\ UNCHANGED <<calcVars, serverVars>>

\* Lines 45-62: the dashboard file.
ReadDashboard ==
    /\ d_pc = "read"
    /\ IF d_dashfile \in {"absent", "invalid_json", "unreadable"}
       THEN DExit(1) /\ UNCHANGED d_config
       ELSE /\ d_config' = d_dashfile
            /\ d_pc' = "subst"
            /\ UNCHANGED d_exit
    /\ UNCHANGED <<d_env, d_dashfile, d_url, d_posts, d_outcome>>
    /\ UNCHANGED <<calcVars, serverVars>>

\* Lines 67-69: dumps, replace, loads.  The result, or "crash" when the text
\* after the replacement is not JSON (json.loads raises outside any try).
Substituted(config, url) ==
    IF config = "placeholder"
    THEN IF url = "url_with_quote" THEN "crash" ELSE "substituted"
    ELSE config

\* Lines 64-75: the placeholder, when DATA_URL is not empty.  An uncaught
\* exception ends the interpreter with status 1.
Substitute ==
    /\ d_pc = "subst"
    /\ LET c == IF DataUrl(d_env) # "" THEN Substituted(d_config, DataUrl(d_env))
                ELSE d_config
       IN  IF c = "crash"
           THEN DExit(1) /\ UNCHANGED d_config
           ELSE d_config' = c /\ d_pc' = "post" /\ UNCHANGED d_exit
    /\ UNCHANGED <<d_env, d_dashfile, d_url, d_posts, d_outcome>>
    /\ UNCHANGED <<calcVars, serverVars>>

Endpoint(u) == [base |-> u.base, slashes |-> u.slashes, path |-> "/api/dashboards/db"]

\* Lines 77-84: the one requests.post call.
Post ==
    /\ d_pc = "post"
    /\ d_posts' = Append(d_posts, [endpoint |-> Endpoint(d_url), json |-> d_config,
                                   key |-> d_env.GRAFANA_API_KEY])
    /\ \E o \in Outcomes : d_outcome' = o
    /\ d_pc' = "handle"
    /\ UNCHANGED <<d_env, d_dashfile, d_url, d_config, d_exit>>
    /\ UNCHANGED <<calcVars, serverVars>>

\* Lines 86-185: the exit status each outcome leads to.  Only the 200 branch
\* has no sys.exit(1), and an exception raised inside it (response.json(),
\* result.get) reaches 'except Exception'.
\* (A variant that takes 201 for success too.)
ExitStatusLenient(o) ==
    IF o.kind = "response" /\ o.status \in {200, 201} /\ o.body_ok THEN 0 ELSE 1

ExitStatus(o) ==
    IF o.kind = "response" /\ o.status = 200 /\ o.body_ok THEN 0 ELSE 1

Handle ==
    /\ d_pc = "handle"
    /\ DExit(ExitStatus(d_outcome))
    /\ UNCHANGED <<d_env, d_dashfile, d_url, d_config, d_posts, d_outcome>>
    /\ UNCHANGED <<calcVars, serverVars>>

\* ------------------------------------------------------- the specifications
\* The calculator, run up to MaxRuns times on its own file.
Init ==
    /\ CalcInit(InitialFiles)
    /\ ServerInit
    /\ DeployInit({[GRAFANA_URL |-> [set |-> FALSE, base |-> "custom", slashes |-> 0],
                    GRAFANA_API_KEY |-> "unset", DATA_URL |-> "unset"]}, {"absent"})

CalcRun ==
    \/ CheckExists
    \/ LoadData
    \/ EnterLoop
    \/ ProcessStep
    \/ Statistics
    \/ OpenWrite
    \/ OpenWriteFails
    \/ Flush
    \/ DumpFails

Next == CalcRun \/ Rerun

Spec == Init /\ [][Next]_vars

\* The server answering requests while the calculator runs once.
ServeFiles ==
    {[exists |-> FALSE, content |-> <<>>],
     [exists |-> TRUE, content |-> <<JunkChunk>>]}
    \cup {[exists |-> TRUE, content |-> Dump(Doc(TRUE, recs, 0))] :
            recs \in SeqsUpTo({Baseline, ScenarioB, NotADict}, MaxRecords)}

InitServe ==
    /\ CalcInit(ServeFiles)
    /\ ServerInit
    /\ DeployInit({[GRAFANA_URL |-> [set |-> FALSE, base |-> "custom", slashes |-> 0],
                    GRAFANA_API_KEY |-> "unset", DATA_URL |-> "unset"]}, {"absent"})

ServerStep ==
    \/ GetDeploymentsOpen
    \/ GetDeploymentsRead
    \/ GetDeploymentsReply
    \/ GetDeploymentsFile
    \/ Health
    \/ Index

NextServe == CalcRun \/ ServerStep

SpecServe == InitServe /\ [][NextServe]_vars

\* The publisher.
InitDeploy ==
    /\ CalcInit({[exists |-> FALSE, content |-> <<>>]})
    /\ ServerInit
    /\ DeployInit(Environments, DashFiles)

NextDeploy ==
    \/ Validate
    \/ ReadDashboard
    \/ Substitute
    \/ Post
    \/ Handle

SpecDeploy == InitDeploy /\ [][NextDeploy]_vars

\* ------------------------------------------------------------------ claims
\* What the claims speak of, stated without the operators of the model of
\* the code: the document the run started from, the document in the file,
\* a date string of the documented format, the floor of a quotient.
In0 == Load(file0.content)
Out == Load(file.content)
Succeeded == pc = "done" /\ exit_code = 0

IsDateString(d) == d.k = "str" /\ d.ok /\ d.suffix \in {"", "Z", "+00:00", "+01u"}
\* The instant a date string names, in units since the epoch of the model.
Instant(d) ==
    CASE d.suffix = "+01u" -> d.local - 1
      [] OTHER -> d.local
BothDatesParse(r) ==
    r.isDict /\ IsDateString(r.PlannedDeploymentDate) /\ IsDateString(r.DeploymentDate)
IsFloorOfDays(q, diff) ==
    q * UnitsPerDay <= diff /\ diff < (q + 1) * UnitsPerDay
Difference(r) == Instant(r.DeploymentDate) - Instant(r.PlannedDeploymentDate)

\* A record with a missing required field or an unparsable date.
MissingField(r) ==
    r.isDict /\ (\/ r.PlannedDeploymentDate.k = "absent"
                 \/ r.DeploymentDate.k = "absent"
                 \/ r.Type.k = "absent")
UnparsableDate(r) ==
    r.isDict /\ (\/ (r.PlannedDeploymentDate.k = "str" /\ ~r.PlannedDeploymentDate.ok)
                 \/ (r.DeploymentDate.k = "str" /\ ~r.DeploymentDate.ok))
\* A record whose delay is computed, classified and accumulated.
Processable(r) == BothDatesParse(r) /\ r.Type.k = "str"
\* A record with nothing in it that raises anything but KeyError/ValueError.
NoFatalCause(r) ==
    /\ r.isDict
    /\ r.PlannedDeploymentDate.k # "null"
    /\ r.DeploymentDate.k # "null"
    /\ r.Type.k # "null"
    /\ r.Name # "null"
    /\ (BothDatesParse(r) =>
          (r.PlannedDeploymentDate.suffix = "") = (r.DeploymentDate.suffix = ""))

RECURSIVE SumDelays(_, _)
SumDelays(recs, J) ==
    IF J = {} THEN 0
    ELSE LET j == CHOOSE x \in J : TRUE
         IN  recs[j].DelayDays.v + SumDelays(recs, J \ {j})

\* C1: after a successful run every record whose two dates parse has
\* DelayDays equal to the floor of (actual - planned) / 1 day, also when the
\* difference is negative and not a whole number of days.
C1_DelayIsFloor ==
    Succeeded =>
        \A j \in 1..Len(Out.deployments) :
            LET r == Out.deployments[j]
            IN  BothDatesParse(r) =>
                    /\ r.DelayDays.has
                    /\ IsFloorOfDays(r.DelayDays.v, Difference(r))

C1_Witness ==
    /\ Succeeded
    /\ \E j \in 1..Len(Out.deployments) :
          LET r == Out.deployments[j]
          IN  /\ BothDatesParse(r)
              /\ Difference(r) < 0
              /\ Difference(r) % UnitsPerDay # 0
              /\ r.DelayDays = SomeDelay(-1)

\* C2 (as claimed): a record on which the run reports a missing required
\* field (a date or Type) or an unparsable date is written back as it was
\* read, adds nothing to Total Delay, and is counted in Total Deployments.
C2_IssueLeavesRecordUnmodified ==
    Succeeded =>
        LET issues == {j \in 1..Len(console) :
                          /\ console[j] # "none"
                          /\ (MissingField(In0.deployments[j])
                              \/ UnparsableDate(In0.deployments[j]))}
        IN  /\ \A j \in issues : Out.deployments[j] = In0.deployments[j]
            /\ total_delay = SumDelays(Out.deployments, (1..Len(console)) \ issues)
            /\ total_deployments = Len(In0.deployments)

\* C3: a run that ends with status 1 on a failure before the write step
\* (no file, not JSON, an exception in the document or in a record) leaves
\* the file as it was; the file is opened for writing at most once, and
\* only after every record has been processed.
C3_FatalBeforeWriteLeavesFile ==
    /\ opens <= 1
    /\ (opens >= 1 =>
          /\ data.dep
          /\ Len(console) = Len(data.deployments)
          /\ pc \in {"dump", "done"})
    /\ (file # file0 => opens = 1)
    /\ (pc = "done" /\ exit_code = 1
          /\ failed_at \in {"not_found", "invalid_json", "exception"}
        => file = file0 /\ opens = 0)

C3_Witness ==
    /\ pc = "done" /\ exit_code = 1 /\ failed_at = "exception"
    /\ Len(console) >= 1
    /\ data.deployments # In0.deployments
    /\ file = file0

\* C4: when the records hold nothing worse than missing fields and
\* unparsable dates, no record aborts the run: each record is gone through,
\* the file is opened for writing once, and, the write not failing, the run
\* ends with status 0, the file a complete document with lastUpdated read
\* from the clock in this run and a delay on every record that has one.
C4_RecordIssuesDoNotAbort ==
    (WellFormed(file0.content) /\ In0.dep
        /\ \A j \in 1..Len(In0.deployments) : NoFatalCause(In0.deployments[j]))
    =>  /\ failed_at \in {"", "write"}
        /\ (pc = "done" =>
              /\ Len(console) = Len(In0.deployments)
              /\ opens = 1)
        /\ (pc = "done" /\ failed_at = "" =>
              /\ exit_code = 0
              /\ WellFormed(file.content)
              /\ Out.lastUpdated = clock
              /\ Out.lastUpdated > In0.lastUpdated
              /\ \A j \in 1..Len(In0.deployments) :
                    Processable(In0.deployments[j]) => Out.deployments[j].DelayDays.has)

C4_Witness ==
    /\ Succeeded
    /\ Len(console) = 2
    /\ console[1] = "KeyError"
    /\ console[2] = "none"
    /\ Out.deployments[2].DelayDays.has
    /\ Out.lastUpdated = clock

\* C5: a second run on the first run's output leaves the DelayDays column,
\* present or absent, as the first run left it; the two outputs differ in
\* lastUpdated at most.
C5_SecondRunKeepsDelays ==
    (run >= 2 /\ Succeeded) =>
        /\ DelayColumn(Out.deployments) = prev_delays[1]
        /\ Out.deployments = In0.deployments
        /\ Out.dep = In0.dep

C5_Witness ==
    /\ run = 2 /\ Succeeded
    /\ \E j \in 1..Len(Out.deployments) :
          Out.deployments[j].DelayDays.has /\ Out.deployments[j].DelayDays.v # 0
              /\ console[j] = "none"
    /\ \E j \in 1..Len(Out.deployments) : ~Out.deployments[j].DelayDays.has

\* C6 (as claimed): Average Delay is Total Delay over the number of records
\* a delay was computed and accumulated for, 0 when there is none.
C6_AverageOverProcessed ==
    Succeeded =>
        LET n == Cardinality({j \in 1..Len(In0.deployments) :
                                 Processable(In0.deployments[j])})
        IN  IF n = 0 THEN avg_delay.num = 0
            ELSE avg_delay.num * n = total_delay * avg_delay.den

\* The run on the two-record scenario has ended, and not on a failed write.
ScenarioRan ==
    /\ file0.content = Dump(ScenarioDoc)
    /\ pc = "done"
    /\ failed_at # "write"

\* C7 (as amended): on the two-record scenario the run ends with status 0
\* and reports Total Deployments 2, Sprints 1, Hotfixes 0, Total Delay 2;
\* A gets DelayDays 2 and B is written back as read.
C7_ScenarioSkippedNotClassified ==
    ScenarioRan =>
        /\ exit_code = 0
        /\ total_deployments = 2
        /\ sprint_count = 1
        /\ hotfix_count = 0
        /\ total_delay = 2
        /\ Out.deployments[1] = [ScenarioA EXCEPT !.DelayDays = SomeDelay(2)]
        /\ Out.deployments[2] = ScenarioB

C7_Witness ==
    /\ ScenarioRan
    /\ exit_code = 0
    /\ console = <<"none", "KeyError">>

\* C7 (as claimed): the same, with Hotfixes 1.
C7_ScenarioSkippedClassified ==
    ScenarioRan =>
        /\ total_deployments = 2
        /\ sprint_count = 1
        /\ hotfix_count = 1
        /\ total_delay = 2
        /\ Out.deployments[1] = [ScenarioA EXCEPT !.DelayDays = SomeDelay(2)]
        /\ Out.deployments[2] = ScenarioB

IsSprint(t) == t.k = "str" /\ t.s \in {"sprint", "Sprint", "SPRINT"}
IsHotfix(t) == t.k = "str" /\ t.s \in {"hotfix", "Hotfix", "HOTFIX"}

\* C8: while no exception has aborted the run, the sprint counter is the
\* number of processed records whose Type is sprint in any case, the hotfix
\* counter the same for hotfix, no record is in both, and Sprints + Hotfixes
\* <= processed records <= Total Deployments.
C8_TypeCountsCaseInsensitive ==
    (pc \in {"loop", "stats", "open", "dump", "done"} /\ failed_at \in {"", "write"}
        /\ data.dep)
    =>  LET done == {j \in 1..Len(console) : Processable(data.deployments[j])}
            sprints == {j \in done : IsSprint(data.deployments[j].Type)}
            hotfixes == {j \in done : IsHotfix(data.deployments[j].Type)}
        IN  /\ sprint_count = Cardinality(sprints)
            /\ hotfix_count = Cardinality(hotfixes)
            /\ sprints \cap hotfixes = {}
            /\ sprint_count + hotfix_count <= Cardinality(done)
            /\ Cardinality(done) <= Len(data.deployments)
            /\ (pc \in {"open", "dump", "done"} =>
                  /\ total_deployments = Len(data.deployments)
                  /\ Cardinality(done) <= total_deployments)

C8_Witness ==
    /\ Succeeded
    /\ Len(data.deployments) = 2
    /\ data.deployments[1].Type = StrT("SPRINT")
    /\ data.deployments[2].Type = StrT("Hotfix")
    /\ sprint_count = 1
    /\ hotfix_count = 1

\* C9: deploy_dashboard ends with status 0 exactly when its one POST to
\* <base-url>/api/dashboards/db came back 200 and the 200 branch ran
\* through; every other end is status 1.  There is at most one POST, and
\* none when the API key is missing or the dashboard file is missing,
\* unreadable or not JSON.
C9_ExitZeroOnlyOn200 ==
    /\ Len(d_posts) <= 1
    /\ \A n \in 1..Len(d_posts) :
          /\ d_posts[n].endpoint.path = "/api/dashboards/db"
          /\ d_posts[n].endpoint.slashes = 0
          /\ d_posts[n].endpoint.base =
                (IF d_env.GRAFANA_URL.set THEN d_env.GRAFANA_URL.base ELSE "default")
    /\ (d_env.GRAFANA_API_KEY \in {"unset", ""}
           \/ d_dashfile \in {"absent", "invalid_json", "unreadable"}
        => Len(d_posts) = 0)
    /\ (d_pc = "done" =>
          /\ d_exit \in {0, 1}
          /\ (d_exit = 0 <=>
                /\ Len(d_posts) = 1
                /\ d_outcome.kind = "response"
                /\ d_outcome.status = 200
                /\ d_outcome.body_ok))

C9_Witness ==
    /\ d_pc = "done"
    /\ d_exit = 1
    /\ Len(d_posts) = 1
    /\ d_outcome.kind = "response"
    /\ d_outcome.status = 401

\* The last request was a GET /api/deployments, and it has been answered.
AnsweredDeployments ==
    s_pc = "idle" /\ s_route = "/api/deployments" /\ s_requests >= 1

\* A read that did not meet the rewrite is answered from the file as it was
\* before or after the run.
QuietReadIsWhole ==
    (AnsweredDeployments /\ ~s_overlap /\ failed_at # "write") =>
        /\ (s_status = 200 =>
              \/ s_body = file0.content
              \/ (Succeeded /\ s_body = Dump(data)))
        /\ (file0.exists /\ WellFormed(file0.content) => s_status = 200)
        /\ (~file0.exists => s_status = 404)

\* C10 (as amended): the server's routes never write the file, and a
\* GET /api/deployments whose read does not meet the calculator's rewrite
\* (from the truncating open to the end of a dump that did not fail) is
\* answered from the file as it was before or after the run: 200 with that
\* complete document when the file is one, 404 when it is absent.
C10_ServerReadsOnlyQuietReadsWhole ==
    /\ []QuietReadIsWhole
    /\ [][ServerStep => file' = file]_vars

C10_Witness ==
    /\ AnsweredDeployments
    /\ ~s_overlap
    /\ Succeeded
    /\ s_status = 200
    /\ s_body = Dump(data)
    /\ s_body # file0.content

\* C10 (as claimed): with a JSON document in the file and no write failing,
\* every GET /api/deployments, however it interleaves with the run, is
\* answered 200 with the document as it was before or after the run.
C10_NoReadWriteRace ==
    (AnsweredDeployments /\ file0.exists /\ WellFormed(file0.content)
        /\ failed_at # "write")
    =>  /\ s_status = 200
        /\ (s_body = file0.content \/ (opens = 1 /\ s_body = Dump(data)))

====
